---------------------------- MODULE Spec2Model ----------------------------
(***************************************************************************)
(* A model of kailua: the lexer (src/src/lex.rs), the single-pass compiler *)
(* (src/src/parse.rs) and the register VM (src/src/vm.rs).                 *)
(*                                                                         *)
(* Bytes are one-character strings, byte strings are sequences of them.    *)
(* An i64 / f64 literal value is kept as its normalised decimal spelling   *)
(* (a sequence of digit bytes), so that the 64-bit and 16-bit range tests  *)
(* of the code are decided on the real widths.                             *)
(***************************************************************************)
EXTENDS Integers, Sequences, FiniteSets, TLC

VARIABLES
    input,          \* Lex.input: the unread bytes, or None after a failed parse
    ahead,          \* Lex.ahead: the cached lookahead token (Eos = empty)
    src,            \* the source buffer the Lex was created on
    returned,       \* history: the results of the next() calls made so far
    peeked,         \* history: the result of the last call when it was peek()
    lexstatus,      \* "ok", "failed" (a call returned Err), "panic"
    constants,      \* ParseProtoBuilder.constants / ParseProto.constants
    byte_codes,     \* ParseProtoBuilder.byte_codes / ParseProto.byte_codes
    locals,         \* ParseProtoBuilder.locals
    phase,          \* where main is: "compiling", "compiled", "compile_error",
                    \* "running", "done", "runtime_error", "panic"
    nstmts,         \* statements compiled since the initial state (instructions,
                    \* for a hand-built Program)
    pc,             \* instructions execute completed
    lastExp,        \* history: the last integer literal load_exp compiled
    globals,        \* ExeState.globals
    stack,          \* ExeState.stack
    func_index,     \* ExeState.func_index
    output,         \* the lines lib_print wrote to standard output
    error,          \* the message of the error execute returned, or <<>>
    copied,         \* history: per global, the value a global-to-global copy gave it
    strbytes,       \* the bytes handed to a string constructor of Value
    strctor,        \* the constructor called: "&[u8]", "&str", "Vec<u8>", "String"
    strvalue,       \* the Value the constructor returned
    strback         \* what <&[u8]>::try_from(&strvalue) returned

strvars == <<strbytes, strctor, strvalue, strback>>

vars == <<input, ahead, src, returned, peeked, lexstatus, constants, byte_codes,
          locals, phase, nstmts, pc, lastExp, globals, stack, func_index, output,
          error, copied, strbytes, strctor, strvalue, strback>>

---------------------------------------------------------------------------
(* Bounds of the model *)

\* longest byte tail appended to a lexicon word to form a lexer input
MaxTail == 2
\* most next() calls made on one Lex
MaxNext == 5
\* most statements of a compiled source
MaxStmts == 2
\* most instructions of a hand-built Program run by the VM
MaxSteps == 3
\* largest register operand of a hand-built instruction
MaxReg == 1
\* longest constant pool of a hand-built Program
MaxConsts == 2

---------------------------------------------------------------------------
(* Byte strings *)

None == <<"None">>

Digits == {"0", "1", "2", "3", "4", "5", "6", "7", "8", "9"}
Letters == {"a", "b", "c", "d", "e", "f", "g", "h", "i", "k", "l", "n", "o",
            "p", "r", "s", "t", "u", "w", "x", "y"}
Whitespace == {" "}

Drop(s, n) == SubSeq(s, n + 1, Len(s))
Take(s, n) == SubSeq(s, 1, n)

StartsWith(s, p) == Len(p) <= Len(s) /\ Take(s, Len(p)) = p

\* length of the longest prefix of s whose bytes all lie in S (many / many1)
RECURSIVE RunLen(_, _)
RunLen(s, S) == IF s # <<>> /\ Head(s) \in S THEN 1 + RunLen(Tail(s), S) ELSE 0

\* length of the prefix of s before the first byte equal to c (Len(s) if none)
RECURSIVE UntilLen(_, _)
UntilLen(s, c) == IF s # <<>> /\ Head(s) # c THEN 1 + UntilLen(Tail(s), c) ELSE 0

DigitVal(c) == CASE c = "0" -> 0 [] c = "1" -> 1 [] c = "2" -> 2 [] c = "3" -> 3
                 [] c = "4" -> 4 [] c = "5" -> 5 [] c = "6" -> 6 [] c = "7" -> 7
                 [] c = "8" -> 8 [] c = "9" -> 9

\* a digit string without its leading zeros ("007" -> "7", "000" -> "0")
RECURSIVE StripZeros(_)
StripZeros(d) == IF Len(d) > 1 /\ Head(d) = "0" THEN StripZeros(Tail(d)) ELSE d

\* a fraction without its trailing zeros ("50" -> "5", "00" -> "0")
RECURSIVE StripTrailingZeros(_)
StripTrailingZeros(d) ==
    IF Len(d) > 1 /\ d[Len(d)] = "0" THEN StripTrailingZeros(Take(d, Len(d) - 1)) ELSE d

\* a <= b for digit strings of equal length
RECURSIVE DigitsLeq(_, _)
DigitsLeq(a, b) ==
    IF a = <<>> THEN TRUE
    ELSE IF DigitVal(Head(a)) < DigitVal(Head(b)) THEN TRUE
    ELSE IF DigitVal(Head(a)) > DigitVal(Head(b)) THEN FALSE
    ELSE DigitsLeq(Tail(a), Tail(b))

\* a <= b for normalised decimal numerals
NumLeq(a, b) == Len(a) < Len(b) \/ (Len(a) = Len(b) /\ DigitsLeq(a, b))

I64Max == <<"9", "2", "2", "3", "3", "7", "2", "0", "3", "6", "8", "5", "4", "7",
            "7", "5", "8", "0", "7">>
I16Max == <<"3", "2", "7", "6", "7">>


---------------------------------------------------------------------------
(* lex.rs: tokens *)

\* Token: tag is the variant, v its payload as bytes (empty when it has none).
\* Integer carries the normalised decimal spelling of its i64, Float the
\* normalised "int.frac" spelling of its f64.
Tok(tag) == [tag |-> tag, v |-> <<>>]
TokV(tag, v) == [tag |-> tag, v |-> v]
Eos == Tok("Eos")

\* keywords(): the alternatives of the choice, in the order they are tried
KeywordTable ==
    << <<<<"a", "n", "d">>, "And">>,
       <<<<"b", "r", "e", "a", "k">>, "Break">>,
       <<<<"d", "o">>, "Do">>,
       <<<<"e", "l", "s", "e", "i", "f">>, "Elseif">>,
       <<<<"e", "l", "s", "e">>, "Else">>,
       <<<<"e", "n", "d">>, "End">>,
       <<<<"f", "a", "l", "s", "e">>, "False">>,
       <<<<"f", "o", "r">>, "For">>,
       <<<<"f", "u", "n", "c", "t", "i", "o", "n">>, "Function">>,
       <<<<"g", "o", "t", "o">>, "Goto">>,
       <<<<"i", "f">>, "If">>,
       <<<<"i", "n">>, "In">>,
       <<<<"l", "o", "c", "a", "l">>, "Local">>,
       <<<<"n", "i", "l">>, "Nil">>,
       <<<<"n", "o", "t">>, "Not">>,
       <<<<"o", "r">>, "Or">>,
       <<<<"r", "e", "p", "e", "a", "t">>, "Repeat">>,
       <<<<"r", "e", "t", "u", "r", "n">>, "Return">>,
       <<<<"t", "h", "e", "n">>, "Then">>,
       <<<<"t", "r", "u", "e">>, "True">>,
       <<<<"u", "n", "t", "i", "l">>, "Until">>,
       <<<<"w", "h", "i", "l", "e">>, "While">> >>

\* operators(): "..." first, then the two-byte spellings, then the single bytes
OperatorTable ==
    << <<<<".", ".", ".">>, "Dots">>,
       <<<<"<", "<">>, "ShiftL">>,
       <<<<">", ">">>, "ShiftR">>,
       <<<<"/", "/">>, "Idiv">>,
       <<<<"=", "=">>, "Equal">>,
       <<<<"~", "=">>, "NotEq">>,
       <<<<"<", "=">>, "LesEq">>,
       <<<<">", "=">>, "GreEq">>,
       <<<<":", ":">>, "DoubColon">>,
       <<<<".", ".">>, "Concat">>,
       <<<<"+">>, "Add">>,
       <<<<"-">>, "Sub">>,
       <<<<"*">>, "Mul">>,
       <<<<"/">>, "Div">>,
       <<<<"%">>, "Mod">>,
       <<<<"^">>, "Pow">>,
       <<<<"#">>, "Len">>,
       <<<<"&">>, "BitAnd">>,
       <<<<"~">>, "BitXor">>,
       <<<<"|">>, "BitOr">>,
       <<<<"<">>, "Less">>,
       <<<<">">>, "Greater">>,
       <<<<"=">>, "Assign">>,
       <<<<"(">>, "ParL">>,
       <<<<")">>, "ParR">>,
       <<<<"{">>, "CurlyL">>,
       <<<<"}">>, "CurlyR">>,
       <<<<"[">>, "SqurL">>,
       <<<<"]">>, "SqurR">>,
       <<<<";">>, "SemiColon">>,
       <<<<":">>, "Colon">>,
       <<<<",">>, "Comma">>,
       <<<<".">>, "Dot">> >>

\* index of the first alternative of a choice whose spelling is a prefix of s
FirstMatch(table, s) ==
    LET I == {i \in 1..Len(table) : StartsWith(s, table[i][1])}
    IN IF I = {} THEN 0 ELSE CHOOSE i \in I : \A j \in I : i <= j

\* a parse result: ok with the token and the unread rest, or a failure
POk(t, rest) == [ok |-> TRUE, tok |-> t, rest |-> rest]
PFail == [ok |-> FALSE, tok |-> Eos, rest |-> <<>>]

TableParse(table, s) ==
    LET i == FirstMatch(table, s)
    IN IF i = 0 THEN PFail
       ELSE POk(Tok(table[i][2]), Drop(s, Len(table[i][1])))

\* a choice that tries the single bytes before the longer spellings
operators_short_first(s) ==
    LET n == Len(OperatorTable)
        rev == [i \in 1..n |-> OperatorTable[n + 1 - i]]
    IN TableParse(rev, s)

operators(s) == TableParse(OperatorTable, s)

\* keywords(): the first reserved word that is a prefix of the input
keywords(s) == TableParse(KeywordTable, s)

\* from_str::<i64>: the value of a digit string, Err when it exceeds i64::MAX
FitsI64(d) == NumLeq(StripZeros(d), I64Max)

\* from_str::<f64> of "int.frac", as the normalised spelling of the value
\* (exact for the short literals of the model; f64 rounding is not modelled)
FloatOf(ip, fp) == StripZeros(ip) \o <<".">> \o StripTrailingZeros(fp)

\* a float parser that accepts a dot with no digit after it
float_bare_dot(s) ==
    LET n == RunLen(s, Digits)
        m == RunLen(Drop(s, n + 1), Digits)
    IN IF n >= 1 /\ Len(s) > n /\ s[n + 1] = "."
       THEN POk(TokV("Float", FloatOf(Take(s, n),
                        IF m = 0 THEN <<"0">> ELSE SubSeq(s, n + 2, n + 1 + m))),
                Drop(s, n + 1 + m))
       ELSE PFail

\* float(): digits, '.', digits
float(s) ==
    LET n == RunLen(s, Digits)
        m == RunLen(Drop(s, n + 1), Digits)
    IN IF n >= 1 /\ Len(s) > n /\ s[n + 1] = "." /\ m >= 1
       THEN POk(TokV("Float", FloatOf(Take(s, n), SubSeq(s, n + 2, n + 1 + m))),
                Drop(s, n + 1 + m))
       ELSE PFail

\* integer(): many1(digit) through from_str; committed = digits were consumed
\* and from_str failed, which ends the enclosing choice with an error
integer(s) ==
    LET n == RunLen(s, Digits)
    IN IF n = 0 THEN [ok |-> FALSE, tok |-> Eos, rest |-> <<>>, committed |-> FALSE]
       ELSE IF FitsI64(Take(s, n))
       THEN [ok |-> TRUE, tok |-> TokV("Integer", StripZeros(Take(s, n))),
             rest |-> Drop(s, n), committed |-> TRUE]
       ELSE [ok |-> FALSE, tok |-> Eos, rest |-> <<>>, committed |-> TRUE]

\* name: a letter, then letters and digits
name(s) ==
    IF s # <<>> /\ Head(s) \in Letters
    THEN LET n == 1 + RunLen(Tail(s), Letters \cup Digits)
         IN POk(TokV("Name", Take(s, n)), Drop(s, n))
    ELSE PFail

\* string: between two '"', any bytes but '"'; committed once the opening
\* quote is consumed
string(s) ==
    IF s # <<>> /\ Head(s) = "\""
    THEN LET n == UntilLen(Tail(s), "\"")
         IN IF n + 1 < Len(s)
            THEN [ok |-> TRUE, tok |-> TokV("String", SubSeq(s, 2, n + 1)),
                  rest |-> Drop(s, n + 2), committed |-> TRUE]
            ELSE [ok |-> FALSE, tok |-> Eos, rest |-> <<>>, committed |-> TRUE]
    ELSE [ok |-> FALSE, tok |-> Eos, rest |-> <<>>, committed |-> FALSE]

\* spaces(): skip the leading whitespace
SkipSpaces(s) == Drop(s, RunLen(s, Whitespace))

\* lua_token(): spaces, then the first alternative that succeeds; an
\* alternative that fails after consuming input ends the choice
lua_token(s) ==
    LET r == SkipSpaces(s)
        kw == keywords(r)
        op == operators(r)
        fl == float(r)
        int == integer(r)
        nm == name(r)
        str == string(r)
    IN IF kw.ok THEN kw
       ELSE IF op.ok THEN op
       ELSE IF fl.ok THEN fl
       ELSE IF int.ok THEN POk(int.tok, int.rest)
       ELSE IF int.committed THEN PFail
       ELSE IF nm.ok THEN nm
       ELSE IF str.ok THEN POk(str.tok, str.rest)
       ELSE IF str.committed THEN PFail
       ELSE IF r = <<>> THEN POk(Eos, <<>>)
       ELSE PFail

---------------------------------------------------------------------------
(* lex.rs: Lex *)

\* do_next as written, but leaving self.input = None after a successful parse
do_next_drop_rest(inp) ==
    IF inp = None
    THEN [res |-> "panic", tok |-> Eos, input |-> None]
    ELSE LET r == lua_token(inp)
         IN IF r.ok THEN [res |-> "ok", tok |-> r.tok, input |-> None]
            ELSE [res |-> "err", tok |-> Eos, input |-> None]

\* Lex::do_next: take the input (leaving None), parse one token from it and
\* store the rest back; unwrap panics when the input is None; a failed parse
\* returns Err and leaves None behind
do_next(inp) ==
    IF inp = None
    THEN [res |-> "panic", tok |-> Eos, input |-> None]
    ELSE LET r == lua_token(inp)
         IN IF r.ok THEN [res |-> "ok", tok |-> r.tok, input |-> r.rest]
            ELSE [res |-> "err", tok |-> Eos, input |-> None]

\* Lex::next: the cached token if there is one, else do_next
next(inp, ah) ==
    IF ah = Eos
    THEN LET d == do_next(inp)
         IN [res |-> d.res, tok |-> d.tok, input |-> d.input, ahead |-> ah]
    ELSE [res |-> "ok", tok |-> ah, input |-> inp, ahead |-> Eos]

\* a peek that reads a token and forgets to cache it
peek_no_cache(inp, ah) ==
    LET d == do_next(inp)
    IN [res |-> d.res, tok |-> d.tok, input |-> d.input, ahead |-> ah]

\* Lex::peek: fill the cache with do_next when it is empty, return the cache
peek(inp, ah) ==
    IF ah = Eos
    THEN LET d == do_next(inp)
         IN [res |-> d.res, tok |-> d.tok, input |-> d.input,
             ahead |-> IF d.res = "ok" THEN d.tok ELSE ah]
    ELSE [res |-> "ok", tok |-> ah, input |-> inp, ahead |-> ah]

StatusAfter(res) == IF res = "ok" THEN "ok" ELSE IF res = "err" THEN "failed" ELSE "panic"

\* a call of next() on the Lex
LexNext ==
    /\ phase = "lexing"
    /\ lexstatus # "panic"
    /\ Len(returned) < MaxNext
    /\ LET r == next(input, ahead)
       IN /\ input' = r.input
          /\ ahead' = r.ahead
          /\ lexstatus' = StatusAfter(r.res)
          /\ returned' = IF r.res = "ok" THEN Append(returned, r.tok) ELSE returned
          /\ peeked' = <<>>
    /\ UNCHANGED <<src, constants, byte_codes, locals, phase, nstmts, pc, lastExp,
                   globals, stack, func_index, output, error, copied, strvars>>

\* a call of peek() on the Lex
LexPeek ==
    /\ phase = "lexing"
    /\ lexstatus # "panic"
    /\ LET r == peek(input, ahead)
       IN /\ input' = r.input
          /\ ahead' = r.ahead
          /\ lexstatus' = StatusAfter(r.res)
          /\ peeked' = IF r.res = "ok" THEN <<r.tok>> ELSE <<>>
    /\ UNCHANGED <<src, returned, constants, byte_codes, locals, phase, nstmts,
                   pc, lastExp, globals, stack, func_index, output, error, copied, strvars>>

\* the words the lexer inputs start with: every reserved word, every operator
\* spelling, numerals around i64::MAX, names, strings and a byte of no token
Spellings(table) == {table[i][1] : i \in 1..Len(table)}
LexWords ==
    Spellings(KeywordTable) \cup Spellings(OperatorTable) \cup
    { <<>>, <<"1", "2", "3">>, <<"0", "0", "7">>, I64Max,
      Take(I64Max, 18) \o <<"8">>,
      <<"x">>, <<"p", "r", "i", "n", "t">>, <<"i", "n", "d", "e", "x">>,
      <<"\"", "s", "\"">>, <<"\"", "s">>, <<"_">> }
TailBytes == {"f", "1", ".", "=", " "}
Tails == UNION {[1..n -> TailBytes] : n \in 0..MaxTail}
LexInputs == {w \o t : w \in LexWords, t \in Tails}

\* no string Value is being constructed
NoStr == strbytes = <<>> /\ strctor = "" /\ strvalue = <<>> /\ strback = <<>>

\* the state of the compiler and of the VM before main starts them
Idle ==
    /\ constants = <<>> /\ byte_codes = <<>> /\ locals = <<>>
    /\ nstmts = 0 /\ pc = 0 /\ lastExp = <<>>
    /\ globals = <<>> /\ stack = <<>> /\ func_index = 0
    /\ output = <<>> /\ error = <<>> /\ copied = <<>>

\* Lex::new on a source buffer
InitLex ==
    /\ src \in LexInputs
    /\ input = src
    /\ ahead = Eos
    /\ returned = <<>>
    /\ peeked = <<>>
    /\ lexstatus = "ok"
    /\ phase = "lexing"
    /\ Idle
    /\ NoStr

NextLex == LexNext \/ LexPeek

SpecLex == InitLex /\ [][NextLex]_vars

---------------------------------------------------------------------------
(* Properties of the lexer, checked under SpecLex *)

\* the first n tokens of a buffer, read by do_next alone (no lookahead)
RECURSIVE TokensOf(_, _)
TokensOf(s, n) ==
    IF n = 0 THEN <<>>
    ELSE LET r == lua_token(s)
         IN IF r.ok THEN <<r.tok>> \o TokensOf(r.rest, n - 1) ELSE <<>>

\* C6: peek() does not consume. The tokens next() has returned are the
\* tokens of the buffer in order, whatever peek() calls came in between; a
\* token peek() returned is the token that follows them; the next() after a
\* peek() returns the peeked token, and a repeated peek() returns it again.
C6_PeekDoesNotConsume ==
    /\ [](/\ returned = TokensOf(src, Len(returned))
          /\ peeked # <<>> => TokensOf(src, Len(returned) + 1) = returned \o peeked)
    /\ [][peeked # <<>> /\ returned' # returned
            => returned' = Append(returned, peeked[1])]_vars
    /\ [][peeked # <<>> /\ returned' = returned /\ lexstatus' = "ok"
            => peeked' = peeked]_vars

\* a peek() has returned a name after two tokens were consumed
C6_Witness ==
    /\ Len(returned) = 2
    /\ peeked # <<>> /\ peeked[1].tag = "Name"
    /\ ahead = peeked[1]

EosReturned == \E i \in DOMAIN returned : returned[i] = Eos

\* C7: once next() has returned Eos, every later next() and peek() returns
\* Eos again, and none returns an error or panics.
C7_EosIsTerminal ==
    [][EosReturned =>
          /\ lexstatus' = "ok"
          /\ \/ returned' = Append(returned, Eos) /\ peeked' = <<>>
             \/ returned' = returned /\ peeked' = <<Eos>>]_vars

\* next() returned Eos twice, then peek() returned it once more
C7_Witness ==
    /\ src # <<>>
    /\ Len(returned) >= 3
    /\ returned[Len(returned)] = Eos /\ returned[Len(returned) - 1] = Eos
    /\ peeked = <<Eos>>

\* the identifier at the head of a buffer: the longest run of letters and
\* digits that starts with a letter (empty when there is none)
HeadIdent(s) ==
    LET r == SkipSpaces(s)
    IN IF r # <<>> /\ Head(r) \in Letters
       THEN Take(r, 1 + RunLen(Tail(r), Letters \cup Digits))
       ELSE <<>>

IsReserved(id) == \E i \in 1..Len(KeywordTable) : KeywordTable[i][1] = id
KeywordOf(id) ==
    Tok(KeywordTable[CHOOSE i \in 1..Len(KeywordTable) : KeywordTable[i][1] = id][2])

\* C8: the first token of a buffer that starts with an identifier is the
\* keyword when the whole identifier is a reserved word, and otherwise one
\* Name holding the whole identifier.
C8_KeywordIffWholeIdentifier ==
    HeadIdent(src) # <<>> /\ returned # <<>> =>
        returned[1] = IF IsReserved(HeadIdent(src))
                      THEN KeywordOf(HeadIdent(src))
                      ELSE TokV("Name", HeadIdent(src))

\* the digits at the head of a buffer (empty when there are none)
HeadDigits(s) == LET r == SkipSpaces(s) IN Take(r, RunLen(r, Digits))
AfterDigits(s) == LET r == SkipSpaces(s) IN Drop(r, RunLen(r, Digits))
\* the digits are followed by '.' and at least one more digit
HasFraction(s) ==
    LET a == AfterDigits(s)
    IN Len(a) >= 2 /\ a[1] = "." /\ a[2] \in Digits
FractionOf(s) == LET a == AfterDigits(s) IN SubSeq(a, 2, 1 + RunLen(Tail(a), Digits))
\* the parse of the first token failed: an error and no token ever returned
FirstTokenFailed == lexstatus # "ok" /\ returned = <<>>
DotTags == {"Dot", "Concat", "Dots"}

NumeralLexed ==
    /\ ~FirstTokenFailed
    /\ returned # <<>> =>
         returned[1] = IF HasFraction(src)
                       THEN TokV("Float", FloatOf(HeadDigits(src), FractionOf(src)))
                       ELSE TokV("Integer", StripZeros(HeadDigits(src)))
    /\ (Len(returned) >= 2 /\ ~HasFraction(src) /\ StartsWith(AfterDigits(src), <<".">>))
         => returned[2].tag \in DotTags

\* C9 as claimed: a numeral is a Float when its digits are followed by '.'
\* and a digit; otherwise the digits alone are an Integer, and a '.' after
\* them starts the next token.
C9_IntegerUnlessFraction == HeadDigits(src) # <<>> => NumeralLexed

\* C9 as amended: the same for digits that are followed by a fraction or whose
\* value is at most i64::MAX; digits alone above i64::MAX are a lex error
\* and no token is returned.
C9_IntegerUnlessFractionInRange ==
    HeadDigits(src) # <<>> =>
        IF HasFraction(src) \/ FitsI64(HeadDigits(src))
        THEN NumeralLexed
        ELSE returned = <<>> /\ peeked = <<>>

\* "123." was read as Integer(123), then Dot
C9_Witness ==
    /\ StartsWith(src, <<"1", "2", "3", ".">>)
    /\ ~HasFraction(src)
    /\ Len(returned) >= 2
    /\ returned[1] = TokV("Integer", <<"1", "2", "3">>)
    /\ returned[2] = Tok("Dot")

\* the longest operator spelling that is a prefix of s (empty when none is)
LongestOperator(s) ==
    LET P == {p \in Spellings(OperatorTable) : StartsWith(s, p)}
    IN IF P = {} THEN <<>> ELSE CHOOSE p \in P : \A q \in P : Len(q) <= Len(p)
TagOfOperator(p) ==
    OperatorTable[CHOOSE i \in 1..Len(OperatorTable) : OperatorTable[i][1] = p][2]

\* C10: the first token of a buffer that starts with an operator is the
\* token of the longest operator spelling that is a prefix of the buffer,
\* and reading it consumes exactly the bytes of that spelling.
C10_LongestOperator ==
    LET r == SkipSpaces(src)
        p == LongestOperator(r)
    IN p # <<>> =>
        /\ ~FirstTokenFailed
        /\ returned # <<>> => returned[1] = Tok(TagOfOperator(p))
        /\ (Len(returned) = 1 /\ peeked = <<>>) => input = Drop(r, Len(p))

\* "..." followed by '.' was read as Dots, leaving the fourth dot unread
C10_Witness ==
    /\ src = <<".", ".", ".", ".">>
    /\ returned = <<Tok("Dots")>>
    /\ peeked = <<>>
    /\ input = <<".">>

---------------------------------------------------------------------------
(* value.rs, bytecode: values and instructions *)

\* Value: tag is the variant, v its payload as bytes
Val(tag, v) == [tag |-> tag, v |-> v]
Nil == Val("Nil", <<>>)
Boolean(b) == Val("Boolean", IF b THEN <<"t", "r", "u", "e">> ELSE <<"f", "a", "l", "s", "e">>)
Integer(d) == Val("Integer", d)
Float(d) == Val("Float", d)
String(s) == Val("String", s)
Function(f) == Val("Function", <<f>>)

\* Display for Value: what println!("{}") writes
Display(val) ==
    CASE val.tag = "Nil" -> <<"n", "i", "l">>
      [] val.tag = "Function" -> <<"function">>
      [] OTHER -> val.v

DigitChar(k) == CASE k = 0 -> "0" [] k = 1 -> "1" [] k = 2 -> "2" [] k = 3 -> "3"
                  [] k = 4 -> "4" [] k = 5 -> "5" [] k = 6 -> "6" [] k = 7 -> "7"
                  [] k = 8 -> "8" [] k = 9 -> "9"

\* the value of a numeral that fits an i16
RECURSIVE NumVal(_)
NumVal(d) == IF d = <<>> THEN 0 ELSE 10 * NumVal(Take(d, Len(d) - 1)) + DigitVal(d[Len(d)])

\* the decimal spelling of an i16 widened to i64 (c as i64)
RECURSIVE SpellNat(_)
SpellNat(n) == IF n < 10 THEN <<DigitChar(n)>> ELSE SpellNat(n \div 10) \o <<DigitChar(n % 10)>>
Spell(n) == IF n < 0 THEN <<"-">> \o SpellNat(-n) ELSE SpellNat(n)

\* a narrowing cast to u8 (x as u8)
U8(x) == x % 256

\* ByteCode: op is the variant, a and b its operands (b = 0 when it has one)
Code(op, a, b) == [op |-> op, a |-> a, b |-> b]

---------------------------------------------------------------------------
(* vm.rs: ExeState *)

\* HashMap::insert / get(..).unwrap_or(&Nil) on a map kept as a function
Insert(map, k, val) == [x \in DOMAIN map \cup {k} |-> IF x = k THEN val ELSE map[x]]
Remove(map, k) == [x \in DOMAIN map \ {k} |-> map[x]]
Get(map, k) == IF k \in DOMAIN map THEN map[k] ELSE Nil

NoError == [kind |-> "", target |-> Nil]
Err(kind) == [kind |-> kind, target |-> Nil]

\* ExeState::new: print is the only global, the stack is empty
NewGlobals == Insert(<<>>, <<"p", "r", "i", "n", "t">>, Function("lib_print"))

\* ExeState::set_stack: grow the stack with Nil up to dst, then store
set_stack(stk, dst, val) ==
    LET n == IF Len(stk) <= dst THEN dst + 1 ELSE Len(stk)
    IN [i \in 1..n |-> IF i = dst + 1 THEN val
                       ELSE IF i <= Len(stk) THEN stk[i] ELSE Nil]

\* ParseProto::get_global: the string constant at an index, else an error
get_global(consts, index) ==
    IF index >= Len(consts) THEN [ok |-> FALSE, name |-> <<>>,
                                  err |-> Err("constant index out of bounds")]
    ELSE IF consts[index + 1].tag # "String"
    THEN [ok |-> FALSE, name |-> <<>>, err |-> Err("constant is not a variable")]
    ELSE [ok |-> TRUE, name |-> consts[index + 1].v, err |-> NoError]

\* a result of one instruction: res is "ok", "err" (execute returns Err) or
\* "panic" (an index out of bounds)
Outcome(res, g, stk, fi, out, err) ==
    [res |-> res, globals |-> g, stack |-> stk, func_index |-> fi,
     output |-> out, error |-> err]

\* lib_print: write the argument at func_index + 1
lib_print(g, stk, fi, out) ==
    IF fi + 1 >= Len(stk) THEN Outcome("panic", g, stk, fi, out, NoError)
    ELSE Outcome("ok", g, stk, fi, Append(out, Display(stk[fi + 2])), NoError)

\* SetGlobalGlobal with its operands the wrong way round
set_global_global_swapped(consts, g, dst, source) ==
    LET d == get_global(consts, dst)
        sr == get_global(consts, source)
    IN IF ~d.ok THEN [ok |-> FALSE, globals |-> g, err |-> d.err]
       ELSE IF ~sr.ok THEN [ok |-> FALSE, globals |-> g, err |-> sr.err]
       ELSE [ok |-> TRUE, globals |-> Insert(g, sr.name, Get(g, d.name)), err |-> NoError]

\* the SetGlobalGlobal arm: globals[dst name] = globals[src name] or Nil
set_global_global(consts, g, dst, source) ==
    LET d == get_global(consts, dst)
        sr == get_global(consts, source)
    IN IF ~d.ok THEN [ok |-> FALSE, globals |-> g, err |-> d.err]
       ELSE IF ~sr.ok THEN [ok |-> FALSE, globals |-> g, err |-> sr.err]
       ELSE [ok |-> TRUE, globals |-> Insert(g, d.name, Get(g, sr.name)), err |-> NoError]

\* one pass of the loop of ExeState::execute: the match on the instruction
execute_code(consts, g, stk, fi, out, code) ==
    LET a == code.a
        b == code.b
    IN CASE code.op = "GetGlobal" ->
              IF b >= Len(consts) THEN Outcome("panic", g, stk, fi, out, NoError)
              ELSE IF consts[b + 1].tag # "String"
              THEN Outcome("err", g, stk, fi, out, Err("not a string"))
              ELSE Outcome("ok", g, set_stack(stk, a, Get(g, consts[b + 1].v)), fi, out, NoError)
         [] code.op = "LoadConst" ->
              IF b >= Len(consts) THEN Outcome("panic", g, stk, fi, out, NoError)
              ELSE Outcome("ok", g, set_stack(stk, a, consts[b + 1]), fi, out, NoError)
         [] code.op = "Call" ->
              IF a >= Len(stk) THEN Outcome("panic", g, stk, a, out, NoError)
              ELSE IF stk[a + 1].tag = "Function" THEN lib_print(g, stk, a, out)
              ELSE Outcome("err", g, stk, a, out,
                           [kind |-> "invalid function", target |-> stk[a + 1]])
         [] code.op = "LoadNil" -> Outcome("ok", g, set_stack(stk, a, Nil), fi, out, NoError)
         [] code.op = "LoadBool" ->
              Outcome("ok", g, set_stack(stk, a, Boolean(b = 1)), fi, out, NoError)
         [] code.op = "LoadInt" ->
              Outcome("ok", g, set_stack(stk, a, Integer(Spell(b))), fi, out, NoError)
         [] code.op = "Move" ->
              IF b >= Len(stk) THEN Outcome("panic", g, stk, fi, out, NoError)
              ELSE Outcome("ok", g, set_stack(stk, a, stk[b + 1]), fi, out, NoError)
         [] code.op = "SetGlobalConst" ->
              LET d == get_global(consts, a)
              IN IF ~d.ok THEN Outcome("err", g, stk, fi, out, d.err)
                 ELSE IF b >= Len(consts) THEN Outcome("panic", g, stk, fi, out, NoError)
                 ELSE Outcome("ok", Insert(g, d.name, consts[b + 1]), stk, fi, out, NoError)
         [] code.op = "SetGlobal" ->
              LET d == get_global(consts, a)
              IN IF ~d.ok THEN Outcome("err", g, stk, fi, out, d.err)
                 ELSE IF b >= Len(stk) THEN Outcome("panic", g, stk, fi, out, NoError)
                 ELSE Outcome("ok", Insert(g, d.name, stk[b + 1]), stk, fi, out, NoError)
         [] code.op = "SetGlobalGlobal" ->
              LET r == set_global_global(consts, g, a, b)
              IN IF ~r.ok THEN Outcome("err", g, stk, fi, out, r.err)
                 ELSE Outcome("ok", r.globals, stk, fi, out, NoError)

\* history: the globals that hold a global-to-global copy. An instruction
\* that copies global s to global d records globals[s] (or Nil) for d; any
\* other store to a global forgets what was recorded for it.
copied_after(consts, g, cp, code, res) ==
    IF res # "ok" THEN cp
    ELSE IF code.op = "SetGlobalGlobal"
    THEN Insert(cp, get_global(consts, code.a).name,
                Get(g, get_global(consts, code.b).name))
    ELSE IF code.op \in {"SetGlobalConst", "SetGlobal"}
    THEN Remove(cp, get_global(consts, code.a).name)
    ELSE cp

PhaseAfter(res) ==
    IF res = "ok" THEN "running" ELSE IF res = "err" THEN "runtime_error" ELSE "panic"

\* execute runs one instruction of the Program
Run(code) ==
    LET r == execute_code(constants, globals, stack, func_index, output, code)
    IN /\ globals' = r.globals
       /\ stack' = r.stack
       /\ func_index' = r.func_index
       /\ output' = r.output
       /\ error' = r.error
       /\ copied' = copied_after(constants, globals, copied, code, r.res)
       /\ phase' = PhaseAfter(r.res)

---------------------------------------------------------------------------
(* The VM on any Program: a constant pool and instructions the compiler   *)
(* need not have emitted, run one instruction at a time                   *)

Regs == 0..MaxReg
Ks == 0..MaxConsts
ImmInts == {2}
ConstVals == {String(<<"x">>), String(<<"y">>), Integer(<<"1">>)}
Pools == UNION {[1..n -> ConstVals] : n \in 0..MaxConsts}

NoLex ==
    /\ src = <<>> /\ input = <<>> /\ ahead = Eos
    /\ returned = <<>> /\ peeked = <<>> /\ lexstatus = "ok"

\* ExeState::new
NewExeState ==
    /\ globals = NewGlobals
    /\ stack = <<>>
    /\ func_index = 0
    /\ output = <<>>
    /\ error = NoError
    /\ copied = <<>>

Step(code) ==
    /\ phase = "running"
    /\ nstmts < MaxSteps
    /\ nstmts' = nstmts + 1
    /\ Run(code)
    /\ pc' = IF phase' = "running" THEN pc + 1 ELSE pc
    /\ UNCHANGED <<input, ahead, src, returned, peeked, lexstatus, constants,
                   byte_codes, locals, lastExp, strvars>>

ExecGetGlobal == \E dst \in Regs, k \in Ks : Step(Code("GetGlobal", dst, k))
ExecLoadConst == \E dst \in Regs, k \in Ks : Step(Code("LoadConst", dst, k))
ExecCall == \E func \in Regs : Step(Code("Call", func, 1))
ExecLoadNil == \E dst \in Regs : Step(Code("LoadNil", dst, 0))
ExecLoadBool == \E dst \in Regs, c \in {0, 1} : Step(Code("LoadBool", dst, c))
ExecLoadInt == \E dst \in Regs, c \in ImmInts : Step(Code("LoadInt", dst, c))
ExecMove == \E dst \in Regs, s \in Regs : Step(Code("Move", dst, s))
ExecSetGlobalConst == \E dst \in Ks, k \in Ks : Step(Code("SetGlobalConst", dst, k))
ExecSetGlobal == \E dst \in Ks, s \in Regs : Step(Code("SetGlobal", dst, s))
ExecSetGlobalGlobal == \E dst \in Ks, k \in Ks : Step(Code("SetGlobalGlobal", dst, k))

InitVM ==
    /\ NoLex
    /\ constants \in Pools
    /\ byte_codes = <<>>
    /\ locals = <<>>
    /\ lastExp = <<>>
    /\ phase = "running"
    /\ nstmts = 0
    /\ pc = 0
    /\ NewExeState
    /\ NoStr

NextVM ==
    \/ ExecGetGlobal
    \/ ExecLoadConst
    \/ ExecCall
    \/ ExecLoadNil
    \/ ExecLoadBool
    \/ ExecLoadInt
    \/ ExecMove
    \/ ExecSetGlobalConst
    \/ ExecSetGlobal
    \/ ExecSetGlobalGlobal

SpecVM == InitVM /\ [][NextVM]_vars

---------------------------------------------------------------------------
(* parse.rs: ParseProtoBuilder *)

\* an add_const that appends without looking for an equal entry
add_const_always_push(consts, c) ==
    [constants |-> Append(consts, c), idx |-> Len(consts)]

\* add_const: the position of the first entry equal to c, else push c and
\* return the last index
add_const(consts, c) ==
    LET P == {i \in 1..Len(consts) : consts[i] = c}
    IN IF P # {}
       THEN [constants |-> consts, idx |-> (CHOOSE i \in P : \A j \in P : i <= j) - 1]
       ELSE [constants |-> Append(consts, c), idx |-> Len(Append(consts, c)) - 1]

\* get_local: rposition of the name among the locals, -1 for None
get_local(lcls, nm) ==
    LET P == {i \in 1..Len(lcls) : lcls[i] = nm}
    IN IF P = {} THEN -1 ELSE (CHOOSE i \in P : \A j \in P : j <= i) - 1

\* a cast (i as i16) that keeps the low 16 bits instead of a checked conversion
i16_wrapping_cast(i) ==
    IF NumLeq(i, I16Max) THEN [ok |-> TRUE, val |-> NumVal(i)]
    ELSE IF NumLeq(i, <<"6", "5", "5", "3", "5">>)
    THEN [ok |-> TRUE, val |-> NumVal(Take(i, 4)) * 10 + DigitVal(i[5]) - 65536]
    ELSE [ok |-> TRUE, val |-> 0]

\* i16::try_from of a literal (literals carry no sign: '-' is a token of its own)
i16_try_from(i) ==
    IF NumLeq(i, I16Max) THEN [ok |-> TRUE, val |-> NumVal(i)]
    ELSE [ok |-> FALSE, val |-> 0]

\* what the compiler methods return: ok with the new pool and the
\* instructions to push, or the error bailed with
Emitted(consts, codes) == [ok |-> TRUE, constants |-> consts, codes |-> codes, err |-> NoError]
Bailed(kind) == [ok |-> FALSE, constants |-> <<>>, codes |-> <<>>, err |-> Err(kind)]

\* load_const
load_const(consts, dst, c) ==
    LET r == add_const(consts, c)
    IN Emitted(r.constants, <<Code("LoadConst", U8(dst), U8(r.idx))>>)

\* load_var: a Move from the local's register, else a GetGlobal by name
load_var(consts, lcls, dst, nm) ==
    LET i == get_local(lcls, nm)
    IN IF i >= 0 THEN Emitted(consts, <<Code("Move", U8(dst), U8(i))>>)
       ELSE LET r == add_const(consts, String(nm))
            IN Emitted(r.constants, <<Code("GetGlobal", U8(dst), U8(r.idx))>>)

\* load_exp on the token next() returned
load_exp(consts, lcls, dst, t) ==
    CASE t.tag = "Nil" -> Emitted(consts, <<Code("LoadNil", U8(dst), 0)>>)
      [] t.tag = "True" -> Emitted(consts, <<Code("LoadBool", U8(dst), 1)>>)
      [] t.tag = "False" -> Emitted(consts, <<Code("LoadBool", U8(dst), 0)>>)
      [] t.tag = "Integer" ->
           LET ii == i16_try_from(t.v)
           IN IF ii.ok THEN Emitted(consts, <<Code("LoadInt", U8(dst), ii.val)>>)
              ELSE load_const(consts, dst, Integer(t.v))
      [] t.tag = "Float" -> load_const(consts, dst, Float(t.v))
      [] t.tag = "String" -> load_const(consts, dst, String(t.v))
      [] t.tag = "Name" -> load_var(consts, lcls, dst, t.v)
      [] OTHER -> Bailed("invalid argument")

\* the global branch of assignment: the name is interned, then the store is
\* chosen by the token after '='
global_assignment(consts, lcls, var, t) ==
    LET d == add_const(consts, String(var))
        dst == U8(d.idx)
        konst(c) == LET r == add_const(d.constants, c)
                    IN Emitted(r.constants, <<Code("SetGlobalConst", dst, U8(r.idx))>>)
    IN CASE t.tag = "Nil" -> konst(Nil)
         [] t.tag = "True" -> konst(Boolean(TRUE))
         [] t.tag = "False" -> konst(Boolean(FALSE))
         [] t.tag = "Integer" -> konst(Integer(t.v))
         [] t.tag = "Float" -> konst(Float(t.v))
         [] t.tag = "String" -> konst(String(t.v))
         [] t.tag = "Name" ->
              LET i == get_local(lcls, t.v)
              IN IF i >= 0 THEN Emitted(d.constants, <<Code("SetGlobal", dst, U8(i))>>)
                 ELSE LET r == add_const(d.constants, String(t.v))
                      IN Emitted(r.constants, <<Code("SetGlobalGlobal", dst, U8(r.idx))>>)
         [] OTHER -> Bailed("invalid argument")

\* assignment, after '=' is consumed; t is the token that follows it
assignment(consts, lcls, var, t) ==
    LET i == get_local(lcls, var)
    IN IF i >= 0 THEN load_exp(consts, lcls, i, t)
       ELSE global_assignment(consts, lcls, var, t)

\* a function_call whose Call names the argument's register, not the callee's
function_call_wrong_base(consts, lcls, nm, p, t, close) ==
    LET f == load_var(consts, lcls, Len(lcls), nm)
        call == <<Code("Call", U8(Len(lcls) + 1), 1)>>
    IN CASE p.tag = "ParL" ->
              LET e == load_exp(f.constants, lcls, Len(lcls) + 1, t)
              IN IF ~e.ok THEN e
                 ELSE IF close # Tok("ParR") THEN Bailed("expected )")
                 ELSE Emitted(e.constants, f.codes \o e.codes \o call)
         [] p.tag = "String" ->
              LET e == load_const(f.constants, Len(lcls) + 1, String(p.v))
              IN Emitted(e.constants, f.codes \o e.codes \o call)
         [] OTHER -> Bailed("expected string")

\* function_call: the callee into register locals.len(), the argument into
\* the next one, then Call. p is the token after the name, t the token after
\* '(' and close the token after the argument expression
function_call(consts, lcls, nm, p, t, close) ==
    LET f == load_var(consts, lcls, Len(lcls), nm)
        call == <<Code("Call", U8(Len(lcls)), 1)>>
    IN CASE p.tag = "ParL" ->
              LET e == load_exp(f.constants, lcls, Len(lcls) + 1, t)
              IN IF ~e.ok THEN e
                 ELSE IF close # Tok("ParR") THEN Bailed("expected )")
                 ELSE Emitted(e.constants, f.codes \o e.codes \o call)
         [] p.tag = "String" ->
              LET e == load_const(f.constants, Len(lcls) + 1, String(p.v))
              IN Emitted(e.constants, f.codes \o e.codes \o call)
         [] OTHER -> Bailed("expected string")

\* a local that pushes the name before it compiles the expression
local_name_first(consts, lcls, t1, t2, t) ==
    IF t1.tag # "Name" THEN Bailed("expected variable")
    ELSE IF t2 # Tok("Assign") THEN Bailed("expected =")
    ELSE load_exp(consts, Append(lcls, t1.v), Len(lcls), t)

\* local, after the keyword: the name, '=', the expression into register
\* locals.len(); the name joins the locals after the expression is compiled
local(consts, lcls, t1, t2, t) ==
    IF t1.tag # "Name" THEN Bailed("expected variable")
    ELSE IF t2 # Tok("Assign") THEN Bailed("expected =")
    ELSE load_exp(consts, lcls, Len(lcls), t)

---------------------------------------------------------------------------
(* parse.rs, main.rs: a source is compiled statement by statement, then run *)

\* the tokens the Lex hands to the compiler; each next() is one of them
SrcNames == {<<"x">>, <<"p", "r", "i", "n", "t">>}
SrcTokens ==
    {TokV("Name", n) : n \in SrcNames} \cup
    { Tok("Assign"), Tok("ParL"), Tok("ParR"), Tok("Local"), Eos, Tok("Add"),
      Tok("Nil"), Tok("True"), Tok("False"),
      TokV("Integer", <<"3", "2", "7", "6", "7">>),
      TokV("Integer", <<"3", "2", "7", "6", "8">>),
      TokV("Integer", I64Max),
      TokV("Float", <<"1", ".", "5">>),
      TokV("String", <<"s">>) }

\* history: an integer literal that went through load_exp, with the register
\* asked for, the place of its instruction, and the pool length around it
ExpNote(t, dst, at, before, after) ==
    IF t.tag = "Integer"
    THEN <<[i |-> t.v, dst |-> dst, at |-> at, before |-> before, after |-> after]>>
    ELSE lastExp

\* the end of one pass of the loop of load: the instructions are pushed, or
\* the error is returned and the builder dropped
Compiled(r, lcls, note) ==
    /\ constants' = r.constants
    /\ byte_codes' = IF r.ok THEN byte_codes \o r.codes ELSE <<>>
    /\ locals' = IF r.ok THEN lcls ELSE <<>>
    /\ lastExp' = IF r.ok THEN note ELSE <<>>
    /\ phase' = IF r.ok THEN "compiling" ELSE "compile_error"
    /\ error' = r.err
    /\ nstmts' = IF r.ok THEN nstmts + 1 ELSE nstmts
    /\ UNCHANGED <<input, ahead, src, returned, peeked, lexstatus, pc, globals,
                   stack, func_index, output, copied, strvars>>

\* load: next() is a Name and peek() is '=': assignment
LoadAssignment ==
    /\ phase = "compiling"
    /\ nstmts < MaxStmts
    /\ \E var \in SrcNames, t \in SrcTokens :
         LET r == assignment(constants, locals, var, t)
             i == get_local(locals, var)
         IN Compiled(r, locals,
                     IF i >= 0
                     THEN ExpNote(t, i, Len(byte_codes) + 1, Len(constants), Len(r.constants))
                     ELSE lastExp)

\* load: next() is a Name and peek() is not '=': function_call
LoadFunctionCall ==
    /\ phase = "compiling"
    /\ nstmts < MaxStmts
    /\ \E nm \in SrcNames, p \in SrcTokens \ {Tok("Assign")} :
         IF p.tag = "ParL"
         THEN \E t \in SrcTokens :
                IF load_exp(constants, locals, Len(locals) + 1, t).ok
                THEN \E close \in SrcTokens :
                       LET r == function_call(constants, locals, nm, p, t, close)
                           before == Len(load_var(constants, locals, Len(locals), nm).constants)
                       IN Compiled(r, locals,
                                   ExpNote(t, Len(locals) + 1, Len(byte_codes) + 2,
                                           before, Len(r.constants)))
                ELSE Compiled(function_call(constants, locals, nm, p, t, Eos), locals, lastExp)
         ELSE Compiled(function_call(constants, locals, nm, p, Eos, Eos), locals, lastExp)

\* load: next() is the keyword local
LoadLocal ==
    /\ phase = "compiling"
    /\ nstmts < MaxStmts
    /\ \E t1 \in SrcTokens :
         IF t1.tag # "Name" THEN Compiled(local(constants, locals, t1, Eos, Eos), locals, lastExp)
         ELSE \E t2 \in SrcTokens :
                IF t2 # Tok("Assign")
                THEN Compiled(local(constants, locals, t1, t2, Eos), locals, lastExp)
                ELSE \E t \in SrcTokens :
                       LET r == local(constants, locals, t1, t2, t)
                       IN Compiled(r, Append(locals, t1.v),
                                   ExpNote(t, Len(locals), Len(byte_codes) + 1,
                                           Len(constants), Len(r.constants)))

\* load: next() is Eos: the loop ends and the ParseProto is returned
LoadEos ==
    /\ phase = "compiling"
    /\ phase' = "compiled"
    /\ UNCHANGED <<input, ahead, src, returned, peeked, lexstatus, constants,
                   byte_codes, locals, nstmts, pc, lastExp, globals, stack,
                   func_index, output, error, copied, strvars>>

\* load: next() is any other token
LoadUnexpected ==
    /\ phase = "compiling"
    /\ \E t \in SrcTokens :
         /\ t.tag \notin {"Name", "Local", "Eos"}
         /\ Compiled(Bailed("unexpected token"), locals, lastExp)

\* the loop of ExeState::execute from instruction k on: stop at the first
\* instruction that does not end ok
RECURSIVE run(_, _, _, _)
run(consts, codes, st, k) ==
    IF k > Len(codes) THEN st
    ELSE LET o == execute_code(consts, st.globals, st.stack, st.func_index,
                               st.output, codes[k])
             nx == [res |-> o.res, globals |-> o.globals, stack |-> o.stack,
                    func_index |-> o.func_index, output |-> o.output,
                    error |-> o.error,
                    copied |-> copied_after(consts, st.globals, st.copied, codes[k], o.res),
                    pc |-> IF o.res = "ok" THEN k ELSE k - 1]
         IN IF o.res = "ok" THEN run(consts, codes, nx, k + 1) ELSE nx

\* ExeState::new().execute(proto)
execute(consts, codes) ==
    run(consts, codes,
        [res |-> "ok", globals |-> NewGlobals, stack |-> <<>>, func_index |-> 0,
         output |-> <<>>, error |-> NoError, copied |-> <<>>, pc |-> 0], 1)

\* main: the compiled ParseProto is executed on a new ExeState
Execute ==
    /\ phase = "compiled"
    /\ LET r == execute(constants, byte_codes)
       IN /\ globals' = r.globals
          /\ stack' = r.stack
          /\ func_index' = r.func_index
          /\ output' = r.output
          /\ error' = r.error
          /\ copied' = r.copied
          /\ pc' = r.pc
          /\ phase' = IF r.res = "ok" THEN "done" ELSE PhaseAfter(r.res)
    /\ UNCHANGED <<input, ahead, src, returned, peeked, lexstatus, constants,
                   byte_codes, locals, nstmts, lastExp, strvars>>

\* ParseProtoBuilder::new
Init ==
    /\ NoLex
    /\ constants = <<>>
    /\ byte_codes = <<>>
    /\ locals = <<>>
    /\ lastExp = <<>>
    /\ phase = "compiling"
    /\ nstmts = 0
    /\ pc = 0
    /\ globals = <<>> /\ stack = <<>> /\ func_index = 0
    /\ output = <<>> /\ error = NoError /\ copied = <<>>
    /\ NoStr

Next ==
    \/ LoadAssignment
    \/ LoadFunctionCall
    \/ LoadLocal
    \/ LoadEos
    \/ LoadUnexpected
    \/ Execute

Spec == Init /\ [][Next]_vars

---------------------------------------------------------------------------
(* Properties of the VM on any Program, checked under SpecVM *)

\* C1: a global-to-global copy is by value. From the instruction that
\* copies global x to global y on, and for as long as no instruction stores
\* to y, globals[y] is the value x had when the copy ran, whatever is stored
\* to x or to any other global in between.
C1_CopyByValue ==
    \A y \in DOMAIN copied : y \in DOMAIN globals /\ globals[y] = copied[y]

\* y was copied from x when x held "x", and x was stored to again since
C1_Witness ==
    /\ <<"y">> \in DOMAIN copied
    /\ copied[<<"y">>] = String(<<"x">>)
    /\ globals[<<"y">>] = String(<<"x">>)
    /\ <<"x">> \in DOMAIN globals
    /\ globals[<<"x">>] = String(<<"y">>)

\* C3: an operand that is out of bounds for the constant pool or for the
\* stack makes execute return an error; no instruction of any Program
\* panics on an index.
C3_NoPanicOnBadIndex == phase # "panic"

---------------------------------------------------------------------------
(* Properties of compiled sources, checked under Spec *)

Ran == phase \in {"done", "runtime_error", "panic"}
StoreOps == {"SetGlobalConst", "SetGlobal", "SetGlobalGlobal"}

\* no instruction before the j-th stores to the global nm, and a new
\* ExeState does not define it
NeverAssignedBefore(j, nm) ==
    /\ nm \notin DOMAIN NewGlobals
    /\ \A m \in 1..(j - 1) :
         byte_codes[m].op \in StoreOps => constants[byte_codes[m].a + 1].v # nm

\* instructions j .. j+2 are the code of a call statement whose callee is a
\* global never assigned before: GetGlobal r, the argument, Call r
UndefinedCallAt(j) ==
    /\ j + 2 <= Len(byte_codes)
    /\ byte_codes[j].op = "GetGlobal"
    /\ byte_codes[j + 2] = Code("Call", byte_codes[j].a, 1)
    /\ NeverAssignedBefore(j, constants[byte_codes[j].b + 1].v)

\* C2: running a source never panics on a stack index, and a call statement
\* on a global that was never assigned ends the run with the error
\* "invalid function" on Nil: the run does not get past that call.
C2_UndefinedCallIsRuntimeError ==
    Ran =>
      /\ phase # "panic"
      /\ \A j \in 1..Len(byte_codes) :
           UndefinedCallAt(j) =>
             /\ phase = "runtime_error"
             /\ pc <= j + 1
             /\ pc = j + 1 => error = [kind |-> "invalid function", target |-> Nil]

\* a call of an undefined global failed after an earlier statement had run
C2_Witness ==
    /\ phase = "runtime_error"
    /\ \E j \in 2..Len(byte_codes) : UndefinedCallAt(j) /\ pc = j + 1
    /\ stack # <<>>
    /\ error.target = Nil

FreshState ==
    [res |-> "ok", globals |-> NewGlobals, stack |-> <<>>, func_index |-> 0,
     output |-> <<>>, error |-> NoError, copied |-> <<>>, pc |-> 0]

\* C4: an integer literal compiled by load_exp becomes LoadInt(dst, i) with
\* no new constant when it is within the i16 range, and LoadConst(dst, k)
\* with constants[k] = Integer(i) otherwise; running the source up to that
\* instruction leaves Integer(i) in stack[dst].
C4_IntegerLiteralFolding ==
    lastExp # <<>> =>
      LET e == lastExp[1]
          code == byte_codes[e.at]
          st == run(constants, Take(byte_codes, e.at), FreshState, 1)
      IN /\ IF NumLeq(e.i, I16Max)
            THEN code = Code("LoadInt", e.dst, NumVal(e.i)) /\ e.after = e.before
            ELSE /\ code.op = "LoadConst" /\ code.a = e.dst
                 /\ code.b < Len(constants)
                 /\ constants[code.b + 1] = Integer(e.i)
         /\ st.res = "ok" => Len(st.stack) > e.dst /\ st.stack[e.dst + 1] = Integer(e.i)

\* 32767 was compiled to an immediate, 32768 to a constant, and the run left
\* Integer(32768) in its register
C4_Witness ==
    /\ phase = "done"
    /\ lastExp # <<>>
    /\ lastExp[1].i = <<"3", "2", "7", "6", "8">>
    /\ stack[lastExp[1].dst + 1] = Integer(<<"3", "2", "7", "6", "8">>)
    /\ \E j \in 1..Len(byte_codes) : byte_codes[j] = Code("LoadInt", 0, 32767)

\* the constant indices an instruction names, in the order add_const gave them
ConstOperands(code) ==
    CASE code.op \in {"GetGlobal", "LoadConst"} -> <<code.b>>
      [] code.op \in {"SetGlobalConst", "SetGlobalGlobal"} -> <<code.a, code.b>>
      [] code.op = "SetGlobal" -> <<code.a>>
      [] OTHER -> <<>>

RECURSIVE UsesOf(_)
UsesOf(codes) == IF codes = <<>> THEN <<>> ELSE ConstOperands(Head(codes)) \o UsesOf(Tail(codes))

\* a sequence without the repeats of earlier elements
RECURSIVE FirstUses(_)
FirstUses(u) ==
    IF u = <<>> THEN <<>>
    ELSE LET f == FirstUses(Take(u, Len(u) - 1))
         IN IF \E i \in 1..Len(f) : f[i] = u[Len(u)] THEN f ELSE Append(f, u[Len(u)])

ProbeVals ==
    {String(n) : n \in SrcNames} \cup
    {String(<<"s">>), Integer(<<"3", "2", "7", "6", "8">>), Integer(I64Max), Float(<<"1", ".", "5">>),
     Nil, Boolean(TRUE), Boolean(FALSE)}

IsPrefix(a, b) == Len(a) <= Len(b) /\ Take(b, Len(a)) = a

\* C5: the constant pool holds no two equal values and its entries are in
\* the order of their first use by the instructions; add_const of a value
\* in the pool returns its index and leaves the pool alone, add_const of a new
\* value appends it and returns the last index; compiling only ever appends.
C5_ConstantPoolDedup ==
    /\ [](/\ \A i, j \in 1..Len(constants) : constants[i] = constants[j] => i = j
          /\ FirstUses(UsesOf(byte_codes)) = [i \in 1..Len(constants) |-> i - 1]
          /\ \A c \in ProbeVals :
               LET r == add_const(constants, c)
               IN IF \E i \in 1..Len(constants) : constants[i] = c
                  THEN r.constants = constants /\ constants[r.idx + 1] = c
                  ELSE r.constants = Append(constants, c) /\ r.idx = Len(constants))
    /\ [][phase' # "compile_error" => IsPrefix(constants, constants')]_vars

\* two statements named the same two constants: four uses, two entries
C5_Witness ==
    /\ phase = "compiled"
    /\ Len(constants) = 2
    /\ Len(UsesOf(byte_codes)) = 4

---------------------------------------------------------------------------
(* parse.rs: sources that go on after a run of local declarations *)

\* locals named x declared before the statements the model chooses
MaxShadow == 2

\* the builder after compiling n statements `local x = nil`
RECURSIVE DeclareLocals(_)
DeclareLocals(n) ==
    IF n = 0 THEN [constants |-> <<>>, byte_codes |-> <<>>, locals |-> <<>>]
    ELSE LET b == DeclareLocals(n - 1)
             r == local(b.constants, b.locals, TokV("Name", <<"x">>), Tok("Assign"), Tok("Nil"))
         IN [constants |-> r.constants, byte_codes |-> b.byte_codes \o r.codes,
             locals |-> Append(b.locals, <<"x">>)]

\* load has compiled the builder b so far and goes on
Loading(b) ==
    /\ NoLex
    /\ NoStr
    /\ constants = b.constants
    /\ byte_codes = b.byte_codes
    /\ locals = b.locals
    /\ lastExp = <<>>
    /\ phase = "compiling"
    /\ nstmts = 0
    /\ pc = 0
    /\ globals = <<>> /\ stack = <<>> /\ func_index = 0
    /\ output = <<>> /\ error = NoError /\ copied = <<>>

InitScope == Loading(DeclareLocals(MaxShadow))

SpecScope == InitScope /\ [][Next]_vars

\* the register of the most recent local named nm, -1 when there is none
MostRecent(lcls, nm) ==
    IF \E i \in 1..Len(lcls) : lcls[i] = nm
    THEN (CHOOSE i \in 1..Len(lcls) : lcls[i] = nm /\ \A j \in (i + 1)..Len(lcls) : lcls[j] # nm) - 1
    ELSE -1

\* C12: in `local N = E` the expression is compiled against the locals as
\* they were before the declaration and into the register equal to their
\* number; a name M used as E (M = N included) is a Move from the register
\* of the most recent earlier local M, or a GetGlobal of M when there is
\* none, never the register being declared; N joins the locals afterwards.
C12_InitializerSeesEarlierLocals ==
    /\ [](phase = "compiling" =>
            \A N \in SrcNames, t \in SrcTokens :
              LET r == local(constants, locals, TokV("Name", N), Tok("Assign"), t)
              IN r.ok =>
                   /\ Len(r.codes) = 1
                   /\ r.codes[1].a = Len(locals)
                   /\ t.tag = "Name" =>
                        LET e == MostRecent(locals, t.v)
                        IN IF e >= 0
                           THEN r.codes[1] = Code("Move", Len(locals), e) /\ e < Len(locals)
                           ELSE /\ r.codes[1].op = "GetGlobal"
                                /\ r.codes[1].b < Len(r.constants)
                                /\ r.constants[r.codes[1].b + 1] = String(t.v))
    /\ [][Len(locals') = Len(locals) + 1 =>
            /\ Take(locals', Len(locals)) = locals
            /\ Len(byte_codes') = Len(byte_codes) + 1
            /\ byte_codes'[Len(byte_codes')].a = Len(locals)
            /\ byte_codes'[Len(byte_codes')].op = "Move" =>
                 byte_codes'[Len(byte_codes')].b < Len(locals)]_vars

\* after two locals x: `local print = print` read the global print, and
\* `local x = x` moved from the second x, the most recent one
C12_Witness ==
    /\ phase = "compiling"
    /\ Len(locals) = Len(byte_codes)
    /\ \E i \in 3..Len(locals) :
         /\ locals[i] = <<"x">> /\ locals[i - 1] = <<"p", "r", "i", "n", "t">>
         /\ locals[i - 2] = <<"x">>
         /\ byte_codes[i] = Code("Move", i - 1, i - 3)
         /\ byte_codes[i - 1].op = "GetGlobal"
         /\ constants[byte_codes[i - 1].b + 1] = String(<<"p", "r", "i", "n", "t">>)

---------------------------------------------------------------------------
(* parse.rs: sources with about as many constants or locals as a u8 counts *)

\* statements compiled before the ones the model chooses
MaxWide == 253

\* the builder b after it compiled one more statement: `local x = nil` when
\* decl, else `g<i> = nil`
Statement(b, decl, i) ==
    LET r == IF decl
             THEN local(b.constants, b.locals, TokV("Name", <<"x">>), Tok("Assign"), Tok("Nil"))
             ELSE assignment(b.constants, b.locals, <<"g">> \o SpellNat(i), Tok("Nil"))
    IN [constants |-> r.constants, byte_codes |-> b.byte_codes \o r.codes,
        locals |-> IF decl THEN Append(b.locals, <<"x">>) ELSE b.locals]

\* the builder b after it compiled statements lo .. hi in order (the first
\* half is evaluated before the second half is entered)
RECURSIVE Statements(_, _, _, _)
Statements(b, decl, lo, hi) ==
    IF lo > hi THEN b
    ELSE IF lo = hi THEN Statement(b, decl, lo)
    ELSE LET mid == (lo + hi) \div 2
             first == Statements(b, decl, lo, mid)
         IN IF first.byte_codes = <<>> THEN first
            ELSE Statements(first, decl, mid + 1, hi)

NewBuilder == [constants |-> <<>>, byte_codes |-> <<>>, locals |-> <<>>]

InitWide ==
    \E declared \in BOOLEAN : Loading(Statements(NewBuilder, declared, 1, MaxWide))

NextWide ==
    \/ LoadAssignment
    \/ LoadFunctionCall
    \/ LoadLocal
    \/ LoadEos
    \/ LoadUnexpected

SpecWide == InitWide /\ [][NextWide]_vars

\* the slot of the pool that holds c
SlotOf(consts, c) == (CHOOSE i \in 1..Len(consts) : consts[i] = c) - 1

\* C13: the operands of the emitted instructions name the intended slots,
\* however many constants and locals there are: a constant operand is the
\* pool index of the value interned for it and lies inside the pool, a
\* register operand is the index of the local in the local list, or
\* locals.len() and locals.len() + 1 for the two registers of a call; every
\* pool entry is named by an operand of the emitted code.
C13_OperandsNameIntendedSlots ==
    phase = "compiling" =>
      /\ \A i \in 1..Len(byte_codes) : \A j \in 1..Len(ConstOperands(byte_codes[i])) :
           ConstOperands(byte_codes[i])[j] < Len(constants)
      /\ \A k \in 0..(Len(constants) - 1) :
           \E i \in 1..Len(byte_codes) : \E j \in 1..Len(ConstOperands(byte_codes[i])) :
             ConstOperands(byte_codes[i])[j] = k
      /\ \A nm \in SrcNames :
           LET r == load_var(constants, locals, Len(locals), nm)
               e == MostRecent(locals, nm)
           IN r.codes[1] = IF e >= 0 THEN Code("Move", Len(locals), e)
                           ELSE Code("GetGlobal", Len(locals), SlotOf(r.constants, String(nm)))
      /\ \A c \in ProbeVals :
           LET r == load_const(constants, Len(locals) + 1, c)
           IN r.codes[1] = Code("LoadConst", Len(locals) + 1, SlotOf(r.constants, c))
      /\ \A var \in SrcNames :
           LET r == assignment(constants, locals, var, TokV("String", <<"s">>))
               e == MostRecent(locals, var)
           IN r.codes[1] =
                IF e >= 0
                THEN Code("LoadConst", e, SlotOf(r.constants, String(<<"s">>)))
                ELSE Code("SetGlobalConst", SlotOf(r.constants, String(var)),
                          SlotOf(r.constants, String(<<"s">>)))
      /\ \A nm \in SrcNames :
           LET r == function_call(constants, locals, nm, Tok("ParL"), Tok("Nil"), Tok("ParR"))
           IN /\ r.codes[2] = Code("LoadNil", Len(locals) + 1, 0)
              /\ r.codes[3] = Code("Call", Len(locals), 1)

---------------------------------------------------------------------------
(* value.rs: string Values in three storage tiers *)

\* longest string generated for a constructor
MaxStrLen == 49

SHORT_STR_MAX == 14
MID_STR_MAX == 48 - 1

\* the zero byte the fixed buffers are filled with
Nul == "NUL"

\* [0; n] with buf[..len].copy_from_slice(v)
Buf(n, v) == [i \in 1..n |-> IF i <= Len(v) THEN v[i] ELSE Nul]

ShortStr(len, buf) == Val("ShortStr", [len |-> len, buf |-> buf])
MidStr(len, buf) == Val("MidStr", [len |-> len, buf |-> buf])
LongStr(v) == Val("LongStr", v)

NoValue == [some |-> FALSE, value |-> Nil]
Some(value) == [some |-> TRUE, value |-> value]

\* a vec_to_short_mid_str whose first test is len < SHORT_STR_MAX
vec_to_short_mid_str_strict(v) ==
    LET len == Len(v)
    IN IF len < SHORT_STR_MAX THEN Some(ShortStr(U8(len), Buf(SHORT_STR_MAX, v)))
       ELSE IF len <= MID_STR_MAX THEN Some(MidStr(U8(len), Buf(MID_STR_MAX, v)))
       ELSE NoValue

\* vec_to_short_mid_str: the inline or the shared fixed buffer when the
\* bytes fit, the length kept as a u8
vec_to_short_mid_str(v) ==
    LET len == Len(v)
    IN IF len <= SHORT_STR_MAX THEN Some(ShortStr(U8(len), Buf(SHORT_STR_MAX, v)))
       ELSE IF len <= MID_STR_MAX THEN Some(MidStr(U8(len), Buf(MID_STR_MAX, v)))
       ELSE NoValue

\* impl From<&[u8]> for Value
from_slice(v) ==
    LET r == vec_to_short_mid_str(v) IN IF r.some THEN r.value ELSE LongStr(v)

\* impl From<&str> for Value: s.as_bytes().into()
from_str_ref(s) == from_slice(s)

\* impl From<Vec<u8>> for Value
from_vec(v) ==
    LET r == vec_to_short_mid_str(v) IN IF r.some THEN r.value ELSE LongStr(v)

\* impl From<String> for Value: s.into_bytes().into()
from_string(s) == from_vec(s)

\* impl TryFrom<&Value> for &[u8]
try_from_bytes(value) ==
    CASE value.tag = "ShortStr" -> [ok |-> TRUE, bytes |-> Take(value.v.buf, value.v.len)]
      [] value.tag = "MidStr" -> [ok |-> TRUE, bytes |-> Take(value.v.buf, value.v.len)]
      [] value.tag = "LongStr" -> [ok |-> TRUE, bytes |-> value.v]
      [] OTHER -> [ok |-> FALSE, bytes |-> <<>>]

\* the byte strings handed to the constructors: every length up to
\* MaxStrLen, filled with one byte and ended by another (zero bytes included)
FillBytes == {"a", Nul}
LastBytes == {"a", "z", Nul}
StrInputs ==
    {[i \in 1..n |-> IF i = n THEN l ELSE f] : n \in 0..MaxStrLen, f \in FillBytes, l \in LastBytes}

Constructed(ctor, value) ==
    /\ phase = "constructing"
    /\ phase' = "constructed"
    /\ strctor' = ctor
    /\ strvalue' = value
    /\ UNCHANGED <<input, ahead, src, returned, peeked, lexstatus, constants,
                   byte_codes, locals, nstmts, pc, lastExp, globals, stack,
                   func_index, output, error, copied, strbytes, strback>>

StrFromSlice == Constructed("&[u8]", from_slice(strbytes))
StrFromStr == Constructed("&str", from_str_ref(strbytes))
StrFromVec == Constructed("Vec<u8>", from_vec(strbytes))
StrFromString == Constructed("String", from_string(strbytes))

\* the Value is converted back to bytes
StrTryFrom ==
    /\ phase = "constructed"
    /\ phase' = "converted"
    /\ strback' = try_from_bytes(strvalue)
    /\ UNCHANGED <<input, ahead, src, returned, peeked, lexstatus, constants,
                   byte_codes, locals, nstmts, pc, lastExp, globals, stack,
                   func_index, output, error, copied, strbytes, strctor, strvalue>>

InitStr ==
    /\ NoLex
    /\ Idle
    /\ phase = "constructing"
    /\ strbytes \in StrInputs
    /\ strctor = ""
    /\ strvalue = <<>>
    /\ strback = <<>>

NextStr ==
    \/ StrFromSlice
    \/ StrFromStr
    \/ StrFromVec
    \/ StrFromString
    \/ StrTryFrom

SpecStr == InitStr /\ [][NextStr]_vars

---------------------------------------------------------------------------
(* Properties of string Values, checked under SpecStr *)

\* the length a string Value stores
StoredLen(value) == IF value.tag = "LongStr" THEN Len(value.v) ELSE value.v.len

\* C11: the tier of a string Value is decided by the byte length alone, for
\* each of the four constructors: up to 14 bytes ShortStr, 15 to 47 bytes
\* MidStr, 48 bytes and more LongStr; the stored length is the input length
\* and converting the Value back to bytes gives the input bytes.
C11_StringTierByLength ==
    LET n == Len(strbytes)
    IN /\ phase \in {"constructed", "converted"} =>
            /\ strvalue.tag = (IF n <= 14 THEN "ShortStr"
                               ELSE IF n <= 47 THEN "MidStr" ELSE "LongStr")
            /\ StoredLen(strvalue) = n
       /\ phase = "converted" => strback = [ok |-> TRUE, bytes |-> strbytes]

\* a 15-byte string ending in a zero byte went through From<String> into the
\* shared fixed tier and came back whole
C11_Witness ==
    /\ phase = "converted"
    /\ strctor = "String"
    /\ Len(strbytes) = 15
    /\ strbytes[15] = Nul
    /\ strvalue.tag = "MidStr"
    /\ strback.bytes = strbytes

=============================================================================
